---- MODULE Spec2Model ----
(***************************************************************************)
(* Model of k8s-events-to-slack-streamer.py: the startup configuration     *)
(* read, the reconnecting watch loop, the three filter rules, the message  *)
(* formatter and the webhook post.                                         *)
(*                                                                         *)
(* Python values are represented as follows.                               *)
(*   - a str that the program splits, searches or compares is a sequence   *)
(*     of one-character strings (<<"a","b">> is 'ab', <<>> is '');         *)
(*   - a str that the program only builds and sends is a TLA+ string;      *)
(*   - an attribute that may be None is a sequence of length 0 (None) or   *)
(*     1 (the value);                                                      *)
(*   - an environment variable is a sequence of length 0 (not set) or 1.   *)
(* Logging is not modelled.                                                *)
(***************************************************************************)
EXTENDS Integers, Sequences, FiniteSets, TLC

\* Bounds of the model.
MaxEvents == 2         \* events the event source yields over one run

\* time.sleep(30)
SleepSeconds == 30

None == <<>>
Some(v) == <<v>>
IsNone(o) == o = <<>>
Val(o) == o[1]

\* The value of os.environ.get(name, False): Python's False, or a str.
PyFalse == <<>>
PyStr(s) == <<s>>

----------------------------------------------------------------------------
\* Text helpers.

RECURSIVE Str(_)
\* The TLA+ string spelled by a sequence of characters.
Str(cs) == IF cs = <<>> THEN "" ELSE Head(cs) \o Str(Tail(cs))

Digit(n) == CASE n = 0 -> "0" [] n = 1 -> "1" [] n = 2 -> "2" [] n = 3 -> "3"
              [] n = 4 -> "4" [] n = 5 -> "5" [] n = 6 -> "6" [] n = 7 -> "7"
              [] n = 8 -> "8" [] n = 9 -> "9"

RECURSIVE IntStr(_)
\* str(n) of a non-negative int
IntStr(n) == IF n < 10 THEN Digit(n) ELSE IntStr(n \div 10) \o Digit(n % 10)

\* %d, %m, %H, %M, %S: two digits, zero padded
Pad2(n) == IF n < 10 THEN "0" \o Digit(n) ELSE IntStr(n)

\* %Y of a four-digit year
Pad4(n) == IF n < 1000 THEN "0" \o IntStr(n) ELSE IntStr(n)

\* datetime.strftime('%d/%m/%Y %H:%M:%S %Z')
strftime(t) ==
    Pad2(t.day) \o "/" \o Pad2(t.month) \o "/" \o Pad4(t.year) \o " " \o
    Pad2(t.hour) \o ":" \o Pad2(t.minute) \o ":" \o Pad2(t.second) \o " " \o t.tz

RECURSIVE split(_)
\* str.split(): the maximal runs of non-blank characters, in order
split(s) ==
    IF s = <<>> THEN <<>>
    ELSE IF Head(s) = " " THEN split(Tail(s))
    ELSE LET rest == split(Tail(s))
         IN  IF Len(s) > 1 /\ s[2] # " "
             THEN <<(<<Head(s)>> \o Head(rest))>> \o Tail(rest)
             ELSE <<(<<Head(s)>>)>> \o rest

\* x in list
InList(x, list) == \E i \in 1..Len(list) : list[i] = x

----------------------------------------------------------------------------
\* re.search over the pattern syntax the model uses: literal characters,
\* '.', a trailing '*' on either, and a leading '^'.

RECURSIVE MatchHere(_, _)
\* Does pattern p match a prefix of s?  (re.match)
MatchHere(p, s) ==
    IF p = <<>> THEN TRUE
    ELSE IF Len(p) > 1 /\ p[2] = "*"
    THEN \/ MatchHere(SubSeq(p, 3, Len(p)), s)
         \/ /\ s # <<>>
            /\ (p[1] = "." \/ p[1] = Head(s))
            /\ MatchHere(p, Tail(s))
    ELSE /\ s # <<>>
         /\ (p[1] = "." \/ p[1] = Head(s))
         /\ MatchHere(Tail(p), Tail(s))

\* re.search(pattern, string) != None
re_search(pattern, string) ==
    IF pattern # <<>> /\ Head(pattern) = "^"
    THEN MatchHere(Tail(pattern), string)
    ELSE \E i \in 1..(Len(string) + 1) :
            MatchHere(pattern, SubSeq(string, i, Len(string)))

----------------------------------------------------------------------------
\* The environment the process is started in, and the events the event
\* source may yield.

Killing == <<"K","i","l","l","i","n","g">>
Scheduled == <<"S","c","h","e","d","u","l","e","d">>
Pulled == <<"P","u","l","l","e","d">>

\* 'w-7' and 'db-w'
Name_w7 == <<"w","-","7">>
Name_dbw == <<"d","b","-","w">>

\* 'w-.*', 'b-', '-' and '^b'
Pat_w == <<"w","-",".","*">>
Pat_b == <<"b","-">>
Pat_dash == <<"-">>
Pat_ab == <<"^","b">>

Blank == <<" ">>

\* Values of K8S_EVENTS_STREAMER_LIST_OF_REASONS_TO_SKIP
ReasonsValues == { None, Some(Pulled \o Blank \o Killing) }

\* Values of K8S_EVENTS_STREAMER_ENTITY_BLACKLIST
BlacklistValues ==
    { None,
      Some(Pat_b),
      Some(Pat_w \o Blank \o Pat_ab),
      Some(Pat_ab \o Blank \o Blank \o Pat_w),
      Some(Pat_dash \o Blank \o Pat_w) }

Environments ==
    [ K8S_EVENTS_STREAMER_CLUSTER_NAME : { None, Some(""), Some("prod") },
      K8S_EVENTS_STREAMER_NAMESPACE : { None, Some("kube-system") },
      K8S_EVENTS_STREAMER_SKIP_DELETE_EVENTS :
          { None, Some(""), Some("false"), Some("0") },
      K8S_EVENTS_STREAMER_LIST_OF_REASONS_TO_SKIP : ReasonsValues,
      K8S_EVENTS_STREAMER_USERS_TO_NOTIFY : { None, Some("<@ops>") },
      K8S_EVENTS_STREAMER_INCOMING_WEB_HOOK_URL :
          { None, Some(""), Some("https://hooks.example/T0") },
      K8S_EVENTS_STREAMER_ENTITY_BLACKLIST : BlacklistValues ]

T0 == [day |-> 5, month |-> 11, year |-> 2019, hour |-> 7, minute |-> 3,
       second |-> 59, tz |-> "UTC"]

\* Events whose every consumed field is present.
WellFormedObjects ==
    [ metadata : [ name : { Some(Name_w7), Some(Name_dbw) },
                   creation_timestamp : { Some(T0) } ],
      reason : { Killing, Scheduled },
      message : { "Pod scheduled" },
      involved_object : { Some([namespace |-> "default", kind |-> "Pod"]) },
      first_timestamp : { Some(T0) },
      last_timestamp : { Some(T0) },
      count : { 3 },
      type : { "Normal", "Warning" } ]

\* An object of WellFormedObjects with one consumed field set to None.
Damaged(o) ==
    { [o EXCEPT !.metadata.name = None],
      [o EXCEPT !.metadata.creation_timestamp = None],
      [o EXCEPT !.involved_object = None],
      [o EXCEPT !.first_timestamp = None] }

MalformedObjects ==
    UNION { Damaged(o) : o \in { w \in WellFormedObjects :
                                    /\ w.metadata.name = Some(Name_w7)
                                    /\ w.type = "Normal" } }

EventTypes == { "ADDED", "MODIFIED", "DELETED" }

\* What one iteration of the watch stream may yield.
RawEvents ==
    [ type : EventTypes,
      object : { Some(o) : o \in WellFormedObjects \cup MalformedObjects }
               \cup { None } ]

----------------------------------------------------------------------------
\* State.

VARIABLES
    env,                  \* os.environ, fixed for the life of the process
    pc,                   \* where main() is
    error,                \* the exception that ended the process, or "none"
    k8s_namespace_name,   \* main's configuration locals, None before they are read
    skip_delete_events,
    reasons_to_skip,
    users_to_notify,
    slack_web_hook_url,
    entity_blacklist,
    event,                \* the event of the current iteration, or None
    entity_name,          \* Some(event_entity_name(event)) once line 102 has run
    message,              \* Some(the formatted message) once line 110 has run
    nreceived,            \* number of events the watch has yielded so far
    posted,               \* the events (by number) requests.post was called for
    sessionStart,         \* nreceived when the current subscription was opened
    sessionPosts,         \* calls of requests.post since then
    outcome,              \* how the last iteration ended, "none" during one
    slept,                \* seconds the last time.sleep took, 0 before any
    subscriptions,        \* stream generators started and not yet finished
    accepted,             \* number of events that passed the three rules
    request,              \* Some(arguments of the call of requests.post in progress)
    response,             \* Some(status of the last response), None during an iteration
    damaged               \* the event of the current or last iteration has a None
                          \* where the program reads a value

vars == << env, pc, error, k8s_namespace_name, skip_delete_events,
           reasons_to_skip, users_to_notify, slack_web_hook_url,
           entity_blacklist, event, entity_name, message, nreceived, posted,
           sessionStart, sessionPosts, outcome, slept, subscriptions,
           accepted, request, response, damaged >>

config == << k8s_namespace_name, skip_delete_events, reasons_to_skip,
             users_to_notify, slack_web_hook_url, entity_blacklist >>

locals == << event, entity_name, message >>

history == << nreceived, posted, sessionStart, sessionPosts, outcome, slept,
             damaged >>

io == << subscriptions, accepted, request, response >>

\* The locals of one iteration are dead once it ends (each is assigned again
\* before it is read); the model forgets them there.
ForgetLocals ==
    /\ event' = None
    /\ entity_name' = None
    /\ message' = None

Init ==
    /\ env \in Environments
    /\ pc = "config"
    /\ error = "none"
    /\ k8s_namespace_name = None
    /\ skip_delete_events = None
    /\ reasons_to_skip = None
    /\ users_to_notify = None
    /\ slack_web_hook_url = None
    /\ entity_blacklist = None
    /\ event = None
    /\ entity_name = None
    /\ message = None
    /\ nreceived = 0
    /\ posted = <<>>
    /\ sessionStart = 0
    /\ sessionPosts = 0
    /\ outcome = "none"
    /\ slept = 0
    /\ subscriptions = 0
    /\ accepted = 0
    /\ request = None
    /\ response = None
    /\ damaged = FALSE

\* An exception nothing catches: it leaves main() and ends the process.
Die(exception) ==
    /\ pc' = "dead"
    /\ error' = exception

----------------------------------------------------------------------------
\* Reading the environment.

\* os.environ.get(name, default)
environ_get(name, default) ==
    IF IsNone(env[name]) THEN default ELSE Val(env[name])

\* read_env_variable_or_die: Some(value), or None when it raises
\* EnvironmentError.
read_env_variable_or_die(env_var_name) ==
    LET value == environ_get(env_var_name, "")
    IN  IF value = "" THEN None ELSE Some(value)

\* cluster_name()
cluster_name == read_env_variable_or_die("K8S_EVENTS_STREAMER_CLUSTER_NAME")

\* main, lines 80-90: the configuration is read into locals. The webhook URL
\* is the one value checked here; when it is missing line 85 raises and line
\* 86 is not reached.
ReadConfiguration ==
    /\ pc = "config"
    /\ k8s_namespace_name' =
           Some(environ_get("K8S_EVENTS_STREAMER_NAMESPACE", "default"))
    /\ skip_delete_events' =
           Some(IF IsNone(env["K8S_EVENTS_STREAMER_SKIP_DELETE_EVENTS"])
                THEN PyFalse
                ELSE PyStr(Val(env["K8S_EVENTS_STREAMER_SKIP_DELETE_EVENTS"])))
    /\ reasons_to_skip' =
           Some(split(environ_get("K8S_EVENTS_STREAMER_LIST_OF_REASONS_TO_SKIP", <<>>)))
    /\ users_to_notify' =
           Some(environ_get("K8S_EVENTS_STREAMER_USERS_TO_NOTIFY", ""))
    /\ LET url == read_env_variable_or_die("K8S_EVENTS_STREAMER_INCOMING_WEB_HOOK_URL")
       IN  IF IsNone(url)
           THEN /\ Die("EnvironmentError")
                /\ UNCHANGED << slack_web_hook_url, entity_blacklist >>
           ELSE /\ pc' = "top"
                /\ UNCHANGED error
                /\ slack_web_hook_url' = url
                /\ entity_blacklist' =
                       Some(split(environ_get("K8S_EVENTS_STREAMER_ENTITY_BLACKLIST", <<>>)))
    /\ UNCHANGED << env, locals, history, io >>

----------------------------------------------------------------------------
\* The watch loop.

\* main, lines 92-94: the for statement calls k8s_watch.stream, which opens a
\* watch on the namespace.
Subscribe ==
    /\ pc = "top"
    /\ pc' = "stream"
    /\ sessionStart' = nreceived
    /\ sessionPosts' = 0
    /\ subscriptions' = subscriptions + 1
    /\ UNCHANGED << env, error, config, locals, nreceived, posted, outcome, slept,
                    accepted, request, response, damaged >>

\* main, lines 94-95: the stream yields the next event.
StreamYield(e) ==
    /\ pc = "stream"
    /\ nreceived < MaxEvents
    /\ pc' = "delete_rule"
    /\ event' = Some(e)
    /\ nreceived' = nreceived + 1
    /\ outcome' = "none"
    /\ response' = None
    /\ damaged' = (IsNone(e.object) \/ Val(e.object) \in MalformedObjects)
    /\ UNCHANGED << env, error, config, entity_name, message, posted,
                    sessionStart, sessionPosts, slept, subscriptions, accepted,
                    request >>

\* StreamEnd without the wait: the while loop starts over at once.
StreamEnd_no_wait ==
    /\ pc = "stream"
    /\ pc' = "top"
    /\ subscriptions' = subscriptions - 1
    /\ UNCHANGED << env, error, config, locals, history, accepted, request,
                    response >>

\* StreamEnd leaving the for loop with the stream generator unfinished
StreamEnd_left_open ==
    /\ pc = "stream"
    /\ pc' = "sleep"
    /\ UNCHANGED << env, error, config, locals, history, io >>

\* main, lines 94 and 112: the stream is exhausted, the for statement ends.
StreamEnd ==
    /\ pc = "stream"
    /\ pc' = "sleep"
    /\ subscriptions' = subscriptions - 1
    /\ UNCHANGED << env, error, config, locals, history, accepted, request,
                    response >>

\* main, line 94: the stream raises (the API server is unreachable, answers
\* with an error, or the connection breaks). Nothing in main catches it.
StreamRaise ==
    /\ pc = "stream"
    /\ Die("ApiException")
    /\ subscriptions' = subscriptions - 1
    /\ UNCHANGED << env, config, locals, history, accepted, request, response >>

\* Sleep followed by a break out of the while loop
Sleep_then_break ==
    /\ pc = "sleep"
    /\ pc' = "done"
    /\ slept' = SleepSeconds
    /\ UNCHANGED << env, error, config, locals, nreceived, posted,
                    sessionStart, sessionPosts, outcome, damaged, io >>

\* main, lines 112-113: time.sleep(30), then the while loop starts over.
Sleep ==
    /\ pc = "sleep"
    /\ pc' = "top"
    /\ slept' = SleepSeconds
    /\ UNCHANGED << env, error, config, locals, nreceived, posted,
                    sessionStart, sessionPosts, outcome, damaged, io >>

\* The iteration ends (continue, or the end of the loop body): back to the
\* for statement.
Continue(how) ==
    /\ pc' = "stream"
    /\ outcome' = how
    /\ ForgetLocals
    /\ UNCHANGED << error, nreceived, posted, sessionStart, sessionPosts, slept,
                    damaged >>

----------------------------------------------------------------------------
\* The filter rules.

\* is_message_type_delete comparing with the wrong literal
is_message_type_delete_wrong_literal(e) == e.type = "DELETE"

\* is_message_type_delete
is_message_type_delete(e) == e.type = "DELETED"

\* is_reason_in_skip_list looking at the first word of the list only
is_reason_in_skip_list_first_only(e, skip_list) ==
    skip_list # <<>> /\ Val(e.object).reason = skip_list[1]

\* is_reason_in_skip_list, for an event that has an object
is_reason_in_skip_list(e, skip_list) == InList(Val(e.object).reason, skip_list)

\* event_entity_name: the name, or None
event_entity_name(e) == Val(e.object).metadata.name

\* matched_blacklist with re.match (anchored at the start of the name) in
\* place of re.search
matched_blacklist_anchored(blacklist, name) ==
    \E i \in 1..Len(blacklist) :
        MatchHere(IF blacklist[i] # <<>> /\ Head(blacklist[i]) = "^"
                  THEN Tail(blacklist[i]) ELSE blacklist[i], name)

\* main, lines 103-107: matched_blacklist after the loop over the patterns,
\* for a name that is a str
matched_blacklist(blacklist, name) ==
    \E i \in 1..Len(blacklist) : re_search(blacklist[i], name)

\* DeleteRule with the reason looked up before the delete test
DeleteRule_reads_reason_first ==
    /\ pc = "delete_rule"
    /\ IF IsNone(Val(event).object)
       THEN /\ Die("AttributeError")
            /\ UNCHANGED << locals, history >>
       ELSE IF is_message_type_delete(Val(event)) /\ Val(skip_delete_events) # PyFalse
       THEN Continue("skipped_delete")
       ELSE /\ pc' = "reason_rule"
            /\ UNCHANGED << error, locals, history >>
    /\ UNCHANGED << env, config, io >>

\* DeleteRule testing the truth of the flag instead of comparing it with
\* False: the empty string is then not a set flag
DeleteRule_truthy_flag ==
    /\ pc = "delete_rule"
    /\ IF /\ is_message_type_delete(Val(event))
          /\ Val(skip_delete_events) # PyFalse
          /\ Val(skip_delete_events) # PyStr("")
       THEN Continue("skipped_delete")
       ELSE /\ pc' = "reason_rule"
            /\ UNCHANGED << error, locals, history >>
    /\ UNCHANGED << env, config, io >>

\* main, lines 96-98
DeleteRule ==
    /\ pc = "delete_rule"
    /\ IF is_message_type_delete(Val(event)) /\ Val(skip_delete_events) # PyFalse
       THEN Continue("skipped_delete")
       ELSE /\ pc' = "reason_rule"
            /\ UNCHANGED << error, locals, history >>
    /\ UNCHANGED << env, config, io >>

\* ReasonRule taking a reason it has matched off the skip list
ReasonRule_consumes_list ==
    /\ pc = "reason_rule"
    /\ IF IsNone(Val(event).object)
       THEN /\ Die("AttributeError")
            /\ UNCHANGED << locals, history, reasons_to_skip >>
       ELSE IF is_reason_in_skip_list(Val(event), Val(reasons_to_skip))
       THEN /\ Continue("skipped_reason")
            /\ reasons_to_skip' =
                   Some(SelectSeq(Val(reasons_to_skip),
                                  LAMBDA w : w # Val(Val(event).object).reason))
       ELSE /\ pc' = "blacklist_rule"
            /\ UNCHANGED << error, locals, history, reasons_to_skip >>
    /\ UNCHANGED << env, k8s_namespace_name, skip_delete_events, users_to_notify,
                    slack_web_hook_url, entity_blacklist, io >>

\* main, lines 99-101. event['object'].reason raises AttributeError when the
\* object is None.
ReasonRule ==
    /\ pc = "reason_rule"
    /\ IF IsNone(Val(event).object)
       THEN /\ Die("AttributeError")
            /\ UNCHANGED << locals, history >>
       ELSE IF is_reason_in_skip_list(Val(event), Val(reasons_to_skip))
       THEN Continue("skipped_reason")
       ELSE /\ pc' = "blacklist_rule"
            /\ UNCHANGED << error, locals, history >>
    /\ UNCHANGED << env, config, io >>

\* main, lines 102-109. re.search raises TypeError when the name is None,
\* which takes a pattern to search with.
BlacklistRule ==
    /\ pc = "blacklist_rule"
    /\ LET name == event_entity_name(Val(event))
           blacklist == Val(entity_blacklist)
       IN  IF IsNone(name) /\ blacklist # <<>>
           THEN /\ Die("TypeError")
                /\ entity_name' = Some(name)
                /\ UNCHANGED << event, message, history, accepted >>
           ELSE IF ~IsNone(name) /\ matched_blacklist(blacklist, Val(name))
           THEN /\ Continue("skipped_blacklist")
                /\ UNCHANGED accepted
           ELSE /\ pc' = "format"
                /\ entity_name' = Some(name)
                /\ accepted' = accepted + 1
                /\ UNCHANGED << error, event, message, history >>
    /\ UNCHANGED << env, config, subscriptions, request, response >>

----------------------------------------------------------------------------
\* The message formatter.

\* field_format; the value is None (JSON null) or a str
field_format(key, value) == [title |-> key, value |-> value, short |-> "true"]

\* The first attribute access of format_k8s_event_to_slack_message that fails
\* on this event, in evaluation order (lines 50-62), or "none".
FormatFault(event_object) ==
    LET o == Val(event_object.object)
    IN  CASE IsNone(o.involved_object) -> "AttributeError"
          [] IsNone(o.metadata.creation_timestamp) -> "AttributeError"
          [] IsNone(cluster_name) -> "EnvironmentError"
          [] IsNone(o.first_timestamp) -> "AttributeError"
          [] IsNone(o.last_timestamp) -> "AttributeError"
          [] OTHER -> "none"

\* The line 'text' starts as (line 59)
ClusterLine(event_object) ==
    Val(cluster_name) \o " - event type: " \o event_object.type
    \o ", event reason: " \o Str(Val(event_object.object).reason)

\* The line a warning with a notify target gets (line 69)
NotifyLine(notify) == notify \o " there is a warning for you to check"

\* The dict with line 69 assigning to the attachment's text instead of the
\* message's.
SlackMessage_attachment_text(event_object, notify) ==
    LET o == Val(event_object.object)
        fields_data ==
            << field_format("Namespace", Some(Val(o.involved_object).namespace)),
               field_format("Name", IF IsNone(o.metadata.name) THEN None
                                    ELSE Some(Str(Val(o.metadata.name)))),
               field_format("Creation",
                            Some(strftime(Val(o.metadata.creation_timestamp)))),
               field_format("Kind", Some(Val(o.involved_object).kind)) >>
        attachment ==
            [ color |-> IF o.type = "Warning" THEN "#cc4d26" ELSE "#36a64f",
              title |-> o.message,
              text |-> IF o.type = "Warning" /\ notify # ""
                       THEN NotifyLine(notify) ELSE ClusterLine(event_object),
              footer |-> "First time seen: " \o strftime(Val(o.first_timestamp))
                         \o ", Last time seen: " \o strftime(Val(o.last_timestamp))
                         \o ", Count: " \o IntStr(o.count),
              fields |-> fields_data ]
    IN  [ attachments |-> << attachment >> ]

\* The dict with line 66 testing the type of the watch event (ADDED,
\* MODIFIED, DELETED) instead of the type of its object.
SlackMessage_watch_type(event_object, notify) ==
    LET o == Val(event_object.object)
        fields_data ==
            << field_format("Namespace", Some(Val(o.involved_object).namespace)),
               field_format("Name", IF IsNone(o.metadata.name) THEN None
                                    ELSE Some(Str(Val(o.metadata.name)))),
               field_format("Creation",
                            Some(strftime(Val(o.metadata.creation_timestamp)))),
               field_format("Kind", Some(Val(o.involved_object).kind)) >>
        attachment ==
            [ color |-> IF event_object.type = "Warning" THEN "#cc4d26" ELSE "#36a64f",
              title |-> o.message,
              text |-> ClusterLine(event_object),
              footer |-> "First time seen: " \o strftime(Val(o.first_timestamp))
                         \o ", Last time seen: " \o strftime(Val(o.last_timestamp))
                         \o ", Count: " \o IntStr(o.count),
              fields |-> fields_data ]
    IN  IF event_object.type = "Warning" /\ notify # ""
        THEN [ attachments |-> << attachment >>,
               text |-> NotifyLine(notify) ]
        ELSE [ attachments |-> << attachment >> ]

\* The dict format_k8s_event_to_slack_message builds (lines 48-69), for an
\* event FormatFault finds no fault in.
SlackMessage(event_object, notify) ==
    LET o == Val(event_object.object)
        fields_data ==
            << field_format("Namespace", Some(Val(o.involved_object).namespace)),
               field_format("Name", IF IsNone(o.metadata.name) THEN None
                                    ELSE Some(Str(Val(o.metadata.name)))),
               field_format("Creation",
                            Some(strftime(Val(o.metadata.creation_timestamp)))),
               field_format("Kind", Some(Val(o.involved_object).kind)) >>
        attachment ==
            [ color |-> IF o.type = "Warning" THEN "#cc4d26" ELSE "#36a64f",
              title |-> o.message,
              text |-> ClusterLine(event_object),
              footer |-> "First time seen: " \o strftime(Val(o.first_timestamp))
                         \o ", Last time seen: " \o strftime(Val(o.last_timestamp))
                         \o ", Count: " \o IntStr(o.count),
              fields |-> fields_data ]
    IN  IF o.type = "Warning" /\ notify # ""
        THEN [ attachments |-> << attachment >>,
               text |-> NotifyLine(notify) ]
        ELSE [ attachments |-> << attachment >> ]

\* json.dumps of a str, or of None
JsonValue(v) == IF IsNone(v) THEN "null" ELSE "\"" \o Val(v) \o "\""

JsonField(f) ==
    "{\"title\": \"" \o f.title \o "\", \"value\": " \o JsonValue(f.value)
    \o ", \"short\": \"" \o f.short \o "\"}"

RECURSIVE JsonFields(_)
JsonFields(fs) ==
    IF fs = <<>> THEN ""
    ELSE JsonField(Head(fs))
         \o (IF Len(fs) > 1 THEN ", " ELSE "") \o JsonFields(Tail(fs))

\* json.dumps(message): the keys in insertion order
json_dumps(m) ==
    LET a == m.attachments[1]
    IN  "{\"attachments\": [{\"color\": \"" \o a.color
        \o "\", \"title\": \"" \o a.title
        \o "\", \"text\": \"" \o a.text
        \o "\", \"footer\": \"" \o a.footer
        \o "\", \"fields\": [" \o JsonFields(a.fields) \o "]}]"
        \o (IF "text" \in DOMAIN m THEN ", \"text\": \"" \o m.text \o "\"" ELSE "")
        \o "}"

\* format_k8s_event_to_slack_message
format_k8s_event_to_slack_message(event_object, notify) ==
    json_dumps(SlackMessage(event_object, notify))

\* main, line 110
Format ==
    /\ pc = "format"
    /\ LET fault == FormatFault(Val(event))
       IN  IF fault # "none"
           THEN /\ Die(fault)
                /\ UNCHANGED message
           ELSE /\ pc' = "post"
                /\ message' = Some(format_k8s_event_to_slack_message(
                                       Val(event), Val(users_to_notify)))
                /\ UNCHANGED error
    /\ UNCHANGED << env, config, event, entity_name, history, io >>

----------------------------------------------------------------------------
\* The delivery.

\* Status codes the webhook may answer with.
Statuses == { 200, 404, 500 }

\* PostCall sending to the value of another configuration variable
PostCall_other_url ==
    /\ pc = "post"
    /\ pc' = "posting"
    /\ posted' = Append(posted, nreceived)
    /\ sessionPosts' = sessionPosts + 1
    /\ request' = Some([ url |-> Val(users_to_notify),
                         data |-> Val(message),
                         headers |-> "Content-type: application/json" ])
    /\ UNCHANGED << env, error, config, locals, nreceived, sessionStart,
                    outcome, slept, damaged, subscriptions, accepted, response >>

\* PostCall with the call recorded ahead of the earlier ones
PostCall_out_of_order ==
    /\ pc = "post"
    /\ pc' = "posting"
    /\ posted' = << nreceived >> \o posted
    /\ sessionPosts' = sessionPosts + 1
    /\ request' = Some([ url |-> Val(slack_web_hook_url),
                         data |-> Val(message),
                         headers |-> "Content-type: application/json" ])
    /\ UNCHANGED << env, error, config, locals, nreceived, sessionStart,
                    outcome, slept, damaged, subscriptions, accepted, response >>

\* main, line 111, and post_slack_message up to the call of requests.post
PostCall ==
    /\ pc = "post"
    /\ pc' = "posting"
    /\ posted' = Append(posted, nreceived)
    /\ sessionPosts' = sessionPosts + 1
    /\ request' = Some([ url |-> Val(slack_web_hook_url),
                         data |-> Val(message),
                         headers |-> "Content-type: application/json" ])
    /\ UNCHANGED << env, error, config, locals, nreceived, sessionStart,
                    outcome, slept, damaged, subscriptions, accepted, response >>

\* requests.post returns a response; its status is not looked at, and the
\* for loop goes on.
PostReturn(status) ==
    /\ pc = "posting"
    /\ status \in Statuses
    /\ Continue("delivered")
    /\ request' = None
    /\ response' = Some(status)
    /\ UNCHANGED << env, config, subscriptions, accepted >>

\* requests.post raises (connection refused, timeout, DNS failure). Neither
\* post_slack_message nor main catches it.
PostRaise ==
    /\ pc = "posting"
    /\ Die("ConnectionError")
    /\ UNCHANGED << env, config, locals, history, io >>

----------------------------------------------------------------------------

Next ==
    \/ ReadConfiguration
    \/ Subscribe
    \/ \E e \in RawEvents : StreamYield(e)
    \/ StreamEnd
    \/ StreamRaise
    \/ Sleep
    \/ DeleteRule
    \/ ReasonRule
    \/ BlacklistRule
    \/ Format
    \/ PostCall
    \/ \E status \in Statuses : PostReturn(status)
    \/ PostRaise

Spec == Init /\ [][Next]_vars

\* Environments that between them take every branch of the loop: each rule
\* rejecting and accepting, the formatter failing and succeeding.
LoopEnvironments ==
    { e \in Environments :
        /\ e.K8S_EVENTS_STREAMER_CLUSTER_NAME # Some("")
        /\ e.K8S_EVENTS_STREAMER_NAMESPACE = None
        /\ e.K8S_EVENTS_STREAMER_SKIP_DELETE_EVENTS \in { None, Some("") }
        /\ e.K8S_EVENTS_STREAMER_USERS_TO_NOTIFY = None
        /\ e.K8S_EVENTS_STREAMER_INCOMING_WEB_HOOK_URL # Some("")
        /\ e.K8S_EVENTS_STREAMER_ENTITY_BLACKLIST \in { None, Some(Pat_b) } }

\* The loop under its scheduling: time.sleep returns, and the while loop then
\* reaches the for statement.
LoopInit == Init /\ env \in LoopEnvironments

FairSpec == LoopInit /\ [][Next]_vars /\ WF_vars(Sleep) /\ WF_vars(Subscribe)

TypeOK ==
    /\ pc \in { "config", "top", "stream", "delete_rule", "reason_rule",
                "blacklist_rule", "format", "post", "posting", "sleep", "dead" }
    /\ nreceived \in 0..MaxEvents
    /\ Len(posted) <= nreceived

----------------------------------------------------------------------------
\* Properties.

\* The places of main inside one iteration of the for loop, after each rule.
AfterDeleteRule == { "reason_rule", "blacklist_rule", "format", "post", "posting" }
AfterReasonRule == { "blacklist_rule", "format", "post", "posting" }

\* skip_delete_events != False
SkipDeleteEnabled == Val(skip_delete_events) # PyFalse

\* The current event is a warning and there is somebody to notify.
WarningToNotify ==
    /\ Val(Val(event).object).type = "Warning"
    /\ Val(users_to_notify) # ""

\* C1: an exception raised by the delivery step does not end the watch loop
\* (the process is never dead of the exception requests.post raised).
C1_DeliveryFailureKeepsStreaming ==
    ~(pc = "dead" /\ error = "ConnectionError")

\* C2: an event with a missing field never ends the watch loop (the process
\* is never dead of the AttributeError or TypeError its None field causes).
C2_MalformedEventKeepsStreaming ==
    ~(pc = "dead" /\ error \in { "AttributeError", "TypeError" })

\* C3: a stream that ends with an error leads to Idle-Wait like one that
\* ends cleanly (the process is never dead of the stream's exception).
C3_StreamErrorLeadsToIdleWait ==
    ~(pc = "dead" /\ error = "ApiException")

WarningWire ==
    "{\"attachments\": [{\"color\": \"#cc4d26\", \"title\": \"Pod scheduled\", \"text\": \"prod - event type: MODIFIED, event reason: Scheduled\", \"footer\": \"First time seen: 05/11/2019 07:03:59 UTC, Last time seen: 05/11/2019 07:03:59 UTC, Count: 3\", \"fields\": [{\"title\": \"Namespace\", \"value\": \"default\", \"short\": \"true\"}, {\"title\": \"Name\", \"value\": \"w-7\", \"short\": \"true\"}, {\"title\": \"Creation\", \"value\": \"05/11/2019 07:03:59 UTC\", \"short\": \"true\"}, {\"title\": \"Kind\", \"value\": \"Pod\", \"short\": \"true\"}]}], \"text\": \"<@ops> there is a warning for you to check\"}"

C5_ConfigErrorFailsAtStartup ==
    /\ ( \/ IsNone(cluster_name)
         \/ IsNone(read_env_variable_or_die("K8S_EVENTS_STREAMER_INCOMING_WEB_HOOK_URL")) )
       => (pc \in { "config", "dead" } /\ nreceived = 0 /\ posted = <<>>)
    /\ error = "EnvironmentError" => nreceived = 0

\* C6: with delete-skipping on, a DELETED event is rejected by the first
\* rule (the iteration ends there; it is never at a later rule, formatted or
\* posted); with delete-skipping off, a DELETED event goes on to the reason
\* rule.
C6_DeleteRule ==
    /\ [](pc \in AfterDeleteRule =>
            ~(Val(event).type = "DELETED" /\ SkipDeleteEnabled))
    /\ [][pc = "delete_rule" =>
            IF Val(event).type = "DELETED" /\ SkipDeleteEnabled
            THEN /\ pc' = "stream"
                 /\ outcome' = "skipped_delete"
                 /\ message' = None
                 /\ posted' = posted
            ELSE /\ pc' = "reason_rule"
                 /\ event' = event
                 /\ posted' = posted]_vars

\* A DELETED event has been rejected by the delete rule.
C6_Witness ==
    /\ pc = "stream"
    /\ outcome = "skipped_delete"
    /\ SkipDeleteEnabled

\* C7: an event whose reason is in the skip list is rejected, whatever the
\* delete flag, the event type and the blacklist: it is never at the
\* blacklist rule, formatted or posted, and the reason rule ends its
\* iteration with no delivery call.
C7_ReasonRule ==
    /\ [](pc \in AfterReasonRule =>
            ~InList(Val(Val(event).object).reason, Val(reasons_to_skip)))
    /\ [][(/\ pc = "reason_rule"
           /\ ~IsNone(Val(event).object)
           /\ InList(Val(Val(event).object).reason, Val(reasons_to_skip)))
          => (/\ pc' = "stream"
              /\ outcome' = "skipped_reason"
              /\ message' = None
              /\ posted' = posted)]_vars

\* An event has been rejected by the reason rule.
C7_Witness ==
    /\ pc = "stream"
    /\ outcome = "skipped_reason"

\* C8: an event that reached the blacklist rule with a name is rejected if
\* and only if at least one pattern of the blacklist is found somewhere in
\* the name; otherwise it goes on to be formatted.
C8_BlacklistRule ==
    [][(pc = "blacklist_rule" /\ ~IsNone(event_entity_name(Val(event)))) =>
        LET name == Val(event_entity_name(Val(event)))
            blacklist == Val(entity_blacklist)
            found == \E i \in 1..Len(blacklist) : re_search(blacklist[i], name)
        IN  /\ found => (/\ pc' = "stream"
                         /\ outcome' = "skipped_blacklist"
                         /\ message' = None
                         /\ posted' = posted)
            /\ ~found => (pc' = "format" /\ event' = event)]_vars

\* An event has been rejected by a blacklist of two patterns.
C8_Witness ==
    /\ pc = "stream"
    /\ outcome = "skipped_blacklist"
    /\ Len(Val(entity_blacklist)) = 2

\* C9: when the stream ends normally the loop goes to Idle-Wait, sleeps 30
\* seconds and opens the subscription again; a subscription that yielded no
\* event ends with no delivery call made during it.
C9_StreamEndWaitsAndResubscribes ==
    /\ [][(pc = "stream" /\ nreceived' = nreceived /\ error' = "none")
          => (pc' = "sleep" /\ posted' = posted)]_vars
    /\ [][pc = "sleep" => (pc' = "top" /\ slept' = 30)]_vars
    /\ [][pc = "top" => pc' = "stream"]_vars
    /\ []((pc \in { "sleep", "top" } /\ nreceived = sessionStart)
          => sessionPosts = 0)

\* The subscription has been opened again after a stream that yielded
\* nothing and the wait that followed.
C9_Witness ==
    /\ pc = "stream"
    /\ slept = 30
    /\ nreceived = 0
    /\ posted = <<>>

\* C10: events are processed one at a time in stream order: the delivery
\* calls are for events received, in increasing order of arrival, and while
\* a delivery is in progress it is the delivery of the latest event received
\* (no later event has been taken from the stream).
C10_DeliveriesInStreamOrder ==
    /\ \A i \in 1..Len(posted) : posted[i] \in 1..nreceived
    /\ \A i, j \in 1..Len(posted) : i < j => posted[i] < posted[j]
    /\ pc = "posting" => (posted # <<>> /\ posted[Len(posted)] = nreceived)
    /\ pc \in { "delete_rule" } \cup AfterDeleteRule => ~IsNone(event)
    /\ pc \in { "stream", "sleep", "top", "config" } => IsNone(event)

\* Two events have been delivered, one after the other.
C10_Witness ==
    /\ Len(posted) = 2
    /\ pc = "stream"

\* The places of main in the two states of the watch loop.
StreamingPcs == { "stream", "delete_rule" } \cup AfterDeleteRule
IdleWaitPcs == { "sleep", "top" }

\* C11: no error after startup ends the process: a dead process died of the
\* configuration error of the startup check, before the webhook URL was
\* accepted.
C11_OnlyStartupErrorTerminates ==
    pc = "dead" => (error = "EnvironmentError" /\ IsNone(slack_web_hook_url))

C13_AtMostOneSubscription ==
    /\ subscriptions \in { 0, 1 }
    /\ pc \in StreamingPcs => subscriptions = 1
    /\ pc \in IdleWaitPcs \cup { "config" } => subscriptions = 0

\* A second subscription is open, after one that yielded events, ended and
\* was followed by the wait.
C13_Witness ==
    /\ pc = "stream"
    /\ subscriptions = 1
    /\ slept = SleepSeconds
    /\ sessionStart > 0

\* C14: delivery is fire-and-forget: each accepted event causes exactly one
\* call of requests.post (once its iteration is past the formatter and the
\* call, the calls made are as many as the events accepted, none made twice),
\* and after a response of any status the loop is back at the stream.
C14_OnePostPerAcceptedEvent ==
    /\ \A i, j \in 1..Len(posted) : posted[i] = posted[j] => i = j
    /\ Len(posted) <= accepted
    /\ pc \notin { "format", "post" } => Len(posted) = accepted
    /\ ~IsNone(response) =>
          (Val(response) \in Statuses /\ outcome = "delivered"
           /\ pc \in { "stream", "dead" } \cup IdleWaitPcs /\ IsNone(request))

\* C17: an event is formatted and delivered if and only if none of the three
\* rules rejects it: an event at the formatter or the delivery is rejected
\* by no rule, every delivery call is for an accepted event, and every
\* accepted event is formatted and delivered (none is left undelivered once
\* its iteration is past the formatter and the call).
C17_DeliveredIffAccepted ==
    /\ pc \in { "format", "post", "posting" } =>
          /\ ~(Val(event).type = "DELETED" /\ SkipDeleteEnabled)
          /\ ~InList(Val(Val(event).object).reason, Val(reasons_to_skip))
          /\ \/ IsNone(Val(Val(event).object).metadata.name)
             \/ \A i \in 1..Len(Val(entity_blacklist)) :
                   ~re_search(Val(entity_blacklist)[i],
                              Val(Val(Val(event).object).metadata.name))
    /\ outcome \in { "skipped_delete", "skipped_reason", "skipped_blacklist" } =>
          (nreceived \notin { posted[i] : i \in 1..Len(posted) } /\ IsNone(message))
    /\ pc \in { "posting" } => ~IsNone(message)
    /\ pc \notin { "format", "post" } => accepted = Len(posted)

\* What is sent for the MODIFIED event about w-7, reason Scheduled, type
\* Normal, in cluster prod, whoever is to be notified.
NormalWire ==
    "{\"attachments\": [{\"color\": \"#36a64f\", \"title\": \"Pod scheduled\", \"text\": \"prod - event type: MODIFIED, event reason: Scheduled\", \"footer\": \"First time seen: 05/11/2019 07:03:59 UTC, Last time seen: 05/11/2019 07:03:59 UTC, Count: 3\", \"fields\": [{\"title\": \"Namespace\", \"value\": \"default\", \"short\": \"true\"}, {\"title\": \"Name\", \"value\": \"w-7\", \"short\": \"true\"}, {\"title\": \"Creation\", \"value\": \"05/11/2019 07:03:59 UTC\", \"short\": \"true\"}, {\"title\": \"Kind\", \"value\": \"Pod\", \"short\": \"true\"}]}]}"

\* C15: an event whose object's type is not Warning is delivered with the
\* colour #36a64f and the cluster/type/reason line as the text of its
\* attachment, whatever the notify target; the colour is #cc4d26 exactly for
\* the events whose object's type is Warning.
C15_ColourByEventType ==
    pc = "posting" =>
        LET m == SlackMessage(Val(event), Val(users_to_notify))
            o == Val(Val(event).object)
        IN  /\ message = Some(json_dumps(m))
            /\ Val(request).data = Val(message)
            /\ m.attachments[1].color \in { "#36a64f", "#cc4d26" }
            /\ m.attachments[1].color = "#cc4d26" <=> o.type = "Warning"
            /\ o.type # "Warning" =>
                  /\ m.attachments[1].color = "#36a64f"
                  /\ m.attachments[1].text = ClusterLine(Val(event))
                  /\ "text" \notin DOMAIN m
            /\ ( /\ Val(event).type = "MODIFIED"
                 /\ o.type = "Normal"
                 /\ o.reason = Scheduled
                 /\ o.metadata.name = Some(Name_w7)
                 /\ cluster_name = Some("prod") ) => message = Some(NormalWire)

\* A Normal event is being delivered while there is somebody to notify.
C15_Witness ==
    /\ pc = "posting"
    /\ Val(users_to_notify) = "<@ops>"
    /\ Val(Val(event).object).type = "Normal"
    /\ message = Some(NormalWire)

\* C16: the configuration is never changed after startup: no step after the
\* configuration read changes the delete flag, the reasons to skip, the
\* blacklist, the webhook URL, the notify target or the namespace, nor the
\* environment; each keeps the value read from the environment.
C16_ConfigurationReadOnly ==
    /\ [][pc # "config" => (UNCHANGED config /\ env' = env)]_vars
    /\ [](pc \in StreamingPcs \cup IdleWaitPcs =>
            /\ k8s_namespace_name =
                   Some(environ_get("K8S_EVENTS_STREAMER_NAMESPACE", "default"))
            /\ skip_delete_events = Some(env["K8S_EVENTS_STREAMER_SKIP_DELETE_EVENTS"])
            /\ reasons_to_skip =
                   Some(split(environ_get("K8S_EVENTS_STREAMER_LIST_OF_REASONS_TO_SKIP", <<>>)))
            /\ users_to_notify =
                   Some(environ_get("K8S_EVENTS_STREAMER_USERS_TO_NOTIFY", ""))
            /\ slack_web_hook_url = env["K8S_EVENTS_STREAMER_INCOMING_WEB_HOOK_URL"]
            /\ entity_blacklist =
                   Some(split(environ_get("K8S_EVENTS_STREAMER_ENTITY_BLACKLIST", <<>>))))

\* An event has been delivered after a reconnect, with reasons to skip
\* configured.
C16_Witness ==
    /\ pc = "stream"
    /\ outcome = "delivered"
    /\ slept = SleepSeconds
    /\ Val(reasons_to_skip) = << Pulled, Killing >>

\* C18: the rules are applied in the order delete, reason, blacklist and
\* stop at the first rejection: nothing of the object is read before the
\* delete rule has passed and the name is not read before the reason rule
\* has passed, so an event the delete rule rejects ends its iteration
\* without a fault even with no object, an event the reason rule rejects
\* does so even with no name, and a process dead of a missing field died on
\* an event that no earlier rule rejects.
C18_RulesInOrder ==
    /\ [](pc \in { "delete_rule", "reason_rule", "blacklist_rule" } =>
            (IsNone(entity_name) /\ IsNone(message)))
    /\ [](pc \in { "format", "post", "posting" } => ~IsNone(entity_name))
    /\ [](pc \in AfterDeleteRule =>
            ~(Val(event).type = "DELETED" /\ SkipDeleteEnabled))
    /\ [](pc \in AfterReasonRule =>
            ~InList(Val(Val(event).object).reason, Val(reasons_to_skip)))
    /\ []((pc = "dead" /\ error \in { "AttributeError", "TypeError" }) =>
            /\ ~IsNone(event)
            /\ ~(Val(event).type = "DELETED" /\ SkipDeleteEnabled)
            /\ IsNone(Val(event).object)
               \/ ~InList(Val(Val(event).object).reason, Val(reasons_to_skip)))
    /\ [][(pc = "delete_rule" /\ Val(event).type = "DELETED" /\ SkipDeleteEnabled)
          => (pc' = "stream" /\ error' = "none" /\ outcome' = "skipped_delete")]_vars
    /\ [][(/\ pc = "reason_rule"
           /\ ~IsNone(Val(event).object)
           /\ InList(Val(Val(event).object).reason, Val(reasons_to_skip)))
          => (pc' = "stream" /\ error' = "none" /\ outcome' = "skipped_reason")]_vars

\* An event with a None where a later stage reads a value has been rejected
\* by the delete rule, and the loop is back at the stream.
C18_Witness ==
    /\ pc = "stream"
    /\ error = "none"
    /\ outcome = "skipped_delete"
    /\ damaged

\* C19: the loop sleeps only from the place after the for statement, which
\* it reaches only when the stream of the open subscription ends; an event
\* is received only from an open subscription and never changes the sleep
\* or the session; in Idle-Wait no event, message or request is in hand; and
\* every request is made while the subscription that yielded its event is
\* open, carries that event's message, and goes to the webhook URL of the
\* environment.
C19_SleepBetweenStreamsOnly ==
    /\ [](pc \in IdleWaitPcs =>
            /\ subscriptions = 0
            /\ IsNone(event) /\ IsNone(message) /\ IsNone(request))
    /\ [](pc \in { "format", "post", "posting" } =>
            /\ subscriptions = 1
            /\ ~IsNone(event)
            /\ nreceived > sessionStart)
    /\ [](pc = "posting" =>
            /\ ~IsNone(request)
            /\ Val(request).data = Val(message)
            /\ posted[Len(posted)] = nreceived)
    /\ [](~IsNone(request) =>
            /\ pc \in { "posting", "dead" }
            /\ Val(request).url =
                   Val(env["K8S_EVENTS_STREAMER_INCOMING_WEB_HOOK_URL"])
            /\ Val(request).url = Val(slack_web_hook_url))
    /\ [][(slept' # slept \/ (pc = "sleep" /\ pc' = "top")) =>
            /\ pc = "sleep"
            /\ subscriptions = 0 /\ subscriptions' = 0
            /\ nreceived' = nreceived]_vars
    /\ [][(pc' = "sleep" /\ pc # "sleep") =>
            (pc = "stream" /\ subscriptions = 1 /\ subscriptions' = 0)]_vars
    /\ [][nreceived' # nreceived =>
            /\ pc = "stream" /\ subscriptions = 1 /\ subscriptions' = 1
            /\ slept' = slept /\ sessionStart' = sessionStart]_vars

\* A request is in flight for an event of the subscription opened after an
\* Idle-Wait sleep.
C19_Witness ==
    /\ pc = "posting"
    /\ slept = SleepSeconds
    /\ nreceived > sessionStart
    /\ ~IsNone(request)

\* C20: once the configuration is read, delete skipping is on exactly when
\* K8S_EVENTS_STREAMER_SKIP_DELETE_EVENTS is in the environment, whatever
\* its value: with the variable set a DELETED event leaves the delete rule
\* skipped, and a DELETED event is at a later stage only with the variable
\* unset.
C20_SkipDeleteIffVariablePresent ==
    /\ [](pc # "config" =>
            (SkipDeleteEnabled <=>
               ~IsNone(env["K8S_EVENTS_STREAMER_SKIP_DELETE_EVENTS"])))
    /\ []((pc \in AfterDeleteRule /\ Val(event).type = "DELETED") =>
            IsNone(env["K8S_EVENTS_STREAMER_SKIP_DELETE_EVENTS"]))
    /\ [](outcome = "skipped_delete" =>
            ~IsNone(env["K8S_EVENTS_STREAMER_SKIP_DELETE_EVENTS"]))
    /\ [][(/\ pc = "delete_rule" /\ Val(event).type = "DELETED"
           /\ ~IsNone(env["K8S_EVENTS_STREAMER_SKIP_DELETE_EVENTS"]))
          => (pc' = "stream" /\ outcome' = "skipped_delete")]_vars
    /\ [][(/\ pc = "delete_rule" /\ Val(event).type = "DELETED"
           /\ IsNone(env["K8S_EVENTS_STREAMER_SKIP_DELETE_EVENTS"]))
          => (pc' = "reason_rule" /\ outcome' = outcome)]_vars

\* A DELETED event has been skipped with the variable set to the empty
\* string.
C20_Witness ==
    /\ outcome = "skipped_delete"
    /\ env["K8S_EVENTS_STREAMER_SKIP_DELETE_EVENTS"] = Some("")
    /\ pc = "stream"

====
